---- MODULE Spec2Model ----
(***************************************************************************)
(* Model of checkers/event_file_checker.py, the syntax checker of the      *)
(* Phoenix event file format.                                              *)
(*                                                                         *)
(* A decoded JSON value is a record [k, s, keys, items]:                   *)
(*   k      the name of its Python type (type(j).__name__)                 *)
(*   s      str(j) for a scalar                                            *)
(*   keys   the keys of a dict, in the dict's iteration order              *)
(*   items  the items of a list, or the values of a dict (items[i] is the  *)
(*          value stored under keys[i])                                    *)
(* A string built by the program (a label, a message) is the sequence of   *)
(* the pieces it is concatenated or formatted from.                        *)
(* The outcome of a call is a record [exc, message]: exc is "none" when    *)
(* the call returns, and the name of the exception raised otherwise.       *)
(***************************************************************************)
EXTENDS Integers, Sequences, FiniteSets, TLC

VARIABLES pc, fn, name, dtype, j, result, calls

vars == <<pc, fn, name, dtype, j, result, calls>>

----------------------------------------------------------------------------
(* Decoded JSON values *)

PyInt(s) == [k |-> "int", s |-> s, keys |-> <<>>, items |-> <<>>]
PyFloat(s) == [k |-> "float", s |-> s, keys |-> <<>>, items |-> <<>>]
PyStrv(s) == [k |-> "str", s |-> s, keys |-> <<>>, items |-> <<>>]
PyBool(s) == [k |-> "bool", s |-> s, keys |-> <<>>, items |-> <<>>]
PyNone == [k |-> "NoneType", s |-> "None", keys |-> <<>>, items |-> <<>>]
PyList(items) == [k |-> "list", s |-> "", keys |-> <<>>, items |-> items]
PyDict(keys, items) == [k |-> "dict", s |-> "", keys |-> keys, items |-> items]

(* isinstance(v, typ): bool is a subclass of int *)
IsInstance(v, typ) == v.k = typ \/ (typ = "int" /\ v.k = "bool")

(* key in v, for a dict v *)
HasKey(v, key) == \E i \in 1..Len(v.keys) : v.keys[i] = key

(* v[key], for a dict v holding key *)
GetItem(v, key) == v.items[CHOOSE i \in 1..Len(v.keys) : v.keys[i] = key]

(* the pieces of s joined by sep *)
RECURSIVE Join(_, _)
Join(parts, sep) ==
    IF Len(parts) = 0 THEN <<>>
    ELSE IF Len(parts) = 1 THEN parts[1]
    ELSE parts[1] \o sep \o Join(Tail(parts), sep)

(* repr(v) and str(v), used by the % formatting of a message *)
RECURSIVE PyRepr(_)
PyRepr(v) ==
    CASE v.k = "str" -> <<"'", v.s, "'">>
      [] v.k = "list" ->
            <<"[">> \o Join([i \in 1..Len(v.items) |-> PyRepr(v.items[i])], <<", ">>) \o <<"]">>
      [] v.k = "dict" ->
            <<"{">> \o Join([i \in 1..Len(v.items) |->
                              <<"'", v.keys[i], "'", ": ">> \o PyRepr(v.items[i])], <<", ">>)
                    \o <<"}">>
      [] OTHER -> <<v.s>>

PyStr(v) == IF v.k = "str" THEN <<v.s>> ELSE PyRepr(v)

----------------------------------------------------------------------------
(* Outcomes *)

OK == [exc |-> "none", message |-> <<>>]

PhoenixFormatError(msg) == [exc |-> "PhoenixFormatError", message |-> msg]

KeyError(key) == [exc |-> "KeyError", message |-> <<key>>]

TypeError(msg) == [exc |-> "TypeError", message |-> msg]

IndexError(msg) == [exc |-> "IndexError", message |-> msg]

Raised(r) == r.exc # "none"

(* a for loop, given the outcome of each iteration of its body: the outcome
   of the first iteration that raises, and a normal return when none does *)
ForEach(body) ==
    IF \E i \in 1..Len(body) : Raised(body[i])
    THEN body[CHOOSE i \in 1..Len(body) :
                Raised(body[i]) /\ \A h \in 1..(i - 1) : ~Raised(body[h])]
    ELSE OK

----------------------------------------------------------------------------
(* Primitive checkers *)

genericTypeCheck(v, objName, typ) ==
    IF ~IsInstance(v, typ)
    THEN PhoenixFormatError(<<"Expected the ">> \o objName \o <<" to be of type \"", typ,
                              "\", found ", v.k>>)
    ELSE OK

noCheck(v, nm) == OK

floatCheck(v, nm) ==
    IF ~IsInstance(v, "float") /\ ~IsInstance(v, "int")
    THEN PhoenixFormatError(<<"Expected the ">> \o nm \o <<" to be of type float or int, found ",
                              v.k>>)
    ELSE OK

colorAttributeCheck(v, nm) == genericTypeCheck(v, nm, "str")

floatListCheck(v, nm, nitems) ==
    LET t == genericTypeCheck(v, nm, "list")
        item(n) == floatCheck(v.items[n + 1], nm \o <<", item ", ToString(n)>>)
    IN  IF Raised(t) THEN t
        ELSE IF nitems >= 0 /\ Len(v.items) # nitems
        THEN PhoenixFormatError(<<"Expected ", ToString(nitems), " entries in ">> \o nm
                                  \o <<", got ", ToString(Len(v.items))>>)
        ELSE ForEach([i \in 1..Len(v.items) |-> item(i - 1)])

hitTypeCheck(v, nm) ==
    IF ~(v.k = "str" /\ v.s \in {"Point", "Box", "Line"})
    THEN PhoenixFormatError(<<"Invalid hit type \"">> \o PyStr(v) \o <<"\" in ">> \o nm
                              \o <<". Valid values are Point, Line and Box">>)
    ELSE OK

\* posAttributeCheck, were the number of items of a position not checked
posAttributeCheck_NoLength(positions, nm) ==
    LET t == genericTypeCheck(positions, nm, "list")
        item(n) == floatListCheck(positions.items[n + 1], nm \o <<", item ", ToString(n)>>, -1)
    IN  IF Raised(t) THEN t
        ELSE ForEach([i \in 1..Len(positions.items) |-> item(i - 1)])

posAttributeCheck(positions, nm) ==
    LET t == genericTypeCheck(positions, nm, "list")
        item(n) == floatListCheck(positions.items[n + 1], nm \o <<", item ", ToString(n)>>, 3)
    IN  IF Raised(t) THEN t
        ELSE ForEach([i \in 1..Len(positions.items) |-> item(i - 1)])

----------------------------------------------------------------------------
(* Schema tables: a dictionary, in declaration order, from a key to
   (isOpt, checker). A checker is named; ApplyChecker calls it. *)

Entry(key, isOpt, checker) == [key |-> key, isOpt |-> isOpt, checker |-> checker]

ApplyChecker(checker, v, nm) ==
    CASE checker = "noCheck" -> noCheck(v, nm)
      [] checker = "floatCheck" -> floatCheck(v, nm)
      [] checker = "colorAttributeCheck" -> colorAttributeCheck(v, nm)
      [] checker = "floatListCheck" -> floatListCheck(v, nm, -1)
      [] checker = "floatListCheck2" -> floatListCheck(v, nm, 2)
      [] checker = "floatListCheck4" -> floatListCheck(v, nm, 4)
      [] checker = "floatListCheck5" -> floatListCheck(v, nm, 5)
      [] checker = "hitTypeCheck" -> hitTypeCheck(v, nm)
      [] checker = "posAttributeCheck" -> posAttributeCheck(v, nm)
      [] checker = "cellsListCheck" -> genericTypeCheck(v, nm \o <<", cells attribute">>, "list")

(* the loop of genericCheck from entry i of d on; calls are the keys whose
   checker has been called so far *)
RECURSIVE genericCheckLoop(_, _, _, _, _)
genericCheckLoop(v, d, objName, i, called) ==
    IF i > Len(d) THEN [res |-> OK, calls |-> called]
    ELSE LET key == d[i].key
             isOpt == d[i].isOpt
         IN  IF ~isOpt /\ ~HasKey(v, key)
             THEN [res |-> PhoenixFormatError(<<"Expected a '", key, "' attribute in ">>
                                                \o objName),
                   calls |-> called]
             ELSE IF HasKey(v, key)
             THEN LET r == ApplyChecker(d[i].checker, GetItem(v, key),
                                        objName \o <<", attribute '", key, "'">>)
                  IN  IF Raised(r) THEN [res |-> r, calls |-> Append(called, key)]
                      ELSE genericCheckLoop(v, d, objName, i + 1, Append(called, key))
             ELSE genericCheckLoop(v, d, objName, i + 1, called)

\* genericCheck, were the presence of every mandatory key tested before any
\* value is checked
genericCheckRun_PresenceFirst(v, d, objName, objType) ==
    LET missing(i) == ~d[i].isOpt /\ ~HasKey(v, d[i].key)
        m == CHOOSE i \in 1..Len(d) : missing(i) /\ \A h \in 1..(i - 1) : ~missing(h)
    IN  IF ~IsInstance(v, "dict")
        THEN [res |-> PhoenixFormatError(<<"Expected ", objType,
                                           " to be dictionaries. Not the case for ">> \o objName),
              calls |-> <<>>]
        ELSE IF \E i \in 1..Len(d) : missing(i)
        THEN [res |-> PhoenixFormatError(<<"Expected a '", d[m].key, "' attribute in ">>
                                           \o objName),
              calls |-> <<>>]
        ELSE genericCheckLoop(v, d, objName, 1, <<>>)

(* genericCheck with the checker calls it made *)
genericCheckRun(v, d, objName, objType) ==
    IF ~IsInstance(v, "dict")
    THEN [res |-> PhoenixFormatError(<<"Expected ", objType,
                                       " to be dictionaries. Not the case for ">> \o objName),
          calls |-> <<>>]
    ELSE genericCheckLoop(v, d, objName, 1, <<>>)

genericCheck(v, d, objName, objType) == genericCheckRun(v, d, objName, objType).res

----------------------------------------------------------------------------
(* Per data type checkers *)

TrackEntries ==
    << Entry("pos", FALSE, "posAttributeCheck"),
       Entry("color", TRUE, "colorAttributeCheck"),
       Entry("dparams", TRUE, "floatListCheck5"),
       Entry("d0", TRUE, "floatCheck"),
       Entry("z0", TRUE, "floatCheck"),
       Entry("phi", TRUE, "floatCheck"),
       Entry("eta", TRUE, "floatCheck") >>

tracksCheck(data_name, data) ==
    LET t == genericTypeCheck(data, data_name, "list")
        track(n) == genericCheck(data.items[n], TrackEntries,
                                 data_name \o <<", track ", ToString(n)>>, "Track")
    IN  IF Raised(t) THEN t ELSE ForEach([i \in 1..Len(data.items) |-> track(i)])

JetEntries ==
    << Entry("eta", FALSE, "floatCheck"),
       Entry("phi", FALSE, "floatCheck"),
       Entry("theta", TRUE, "floatCheck"),
       Entry("energy", TRUE, "floatCheck"),
       Entry("et", TRUE, "floatCheck"),
       Entry("coneR", TRUE, "floatCheck"),
       Entry("color", TRUE, "colorAttributeCheck") >>

jetsCheck(data_name, data) ==
    LET t == genericTypeCheck(data, data_name, "list")
        jet(n) == genericCheck(data.items[n], JetEntries,
                               data_name \o <<", jet ", ToString(n)>>, "Jet")
    IN  IF Raised(t) THEN t ELSE ForEach([i \in 1..Len(data.items) |-> jet(i)])

HitEntries ==
    << Entry("type", TRUE, "hitTypeCheck"),
       Entry("pos", FALSE, "floatListCheck"),
       Entry("color", TRUE, "colorAttributeCheck") >>

(* len(v) raises a TypeError for a value that has no length. The length of a
   str is not part of a value: hitsCheck takes len() of a value that
   floatListCheck has found to be a list. *)
HasLen(v) == v.k \in {"list", "dict", "str"}

(* one iteration of the loop of hitsCheck over a list of positions *)
hitsCheckPosition(data_name, position, n) ==
    LET pos_name == data_name \o <<", position ", ToString(n)>>
        t == genericTypeCheck(position, data_name, "list")
        x == floatCheck(position.items[1], pos_name \o <<", coordinate x">>)
        y == floatCheck(position.items[2], pos_name \o <<", coordinate y">>)
        z == floatCheck(position.items[3], pos_name \o <<", coordinate z">>)
    IN  IF Raised(t) THEN t
        ELSE IF Len(position.items) # 3
        THEN PhoenixFormatError(<<"Expected Hits to be triplets of values. Not the case for ">>
                                  \o pos_name)
        ELSE IF Raised(x) THEN x
        ELSE IF Raised(y) THEN y
        ELSE z

(* one iteration of the loop of hitsCheck over a list of Hit objects *)
hitsCheckHit(data_name, hit, n) ==
    LET g == genericCheck(hit, HitEntries, data_name \o <<", hit ", ToString(n)>>, "Hit")
        typ == IF HasKey(hit, "type") THEN GetItem(hit, "type") ELSE PyStrv("Point")
        npos == Len(GetItem(hit, "pos").items)
        expNpos == IF typ.k = "str" /\ typ.s = "Point" THEN 3 ELSE 6
    IN  IF Raised(g) THEN g
        ELSE IF ~HasKey(hit, "pos") THEN KeyError("pos")
        ELSE IF ~HasLen(GetItem(hit, "pos"))
        THEN TypeError(<<"object of type '", GetItem(hit, "pos").k, "' has no len()">>)
        ELSE IF npos # expNpos
        THEN PhoenixFormatError(<<"Expected ", ToString(expNpos), " coordinates per Hit in ">>
                                  \o data_name
                                  \o <<". Found ", ToString(npos), " in hit ", ToString(n)>>)
        ELSE OK

\* hitsCheck, were the empty list not returned for before data[0] is read
hitsCheck_NoEmptyReturn(data_name, data) ==
    LET t == genericTypeCheck(data, data_name, "list")
    IN  IF Raised(t) THEN t
        ELSE IF Len(data.items) = 0 THEN IndexError(<<"list index out of range">>)
        ELSE IF IsInstance(data.items[1], "list")
        THEN ForEach([i \in 1..Len(data.items) |->
                        hitsCheckPosition(data_name, data.items[i], i - 1)])
        ELSE ForEach([i \in 1..Len(data.items) |->
                        hitsCheckHit(data_name, data.items[i], i - 1)])

hitsCheck(data_name, data) ==
    LET t == genericTypeCheck(data, data_name, "list")
    IN  IF Raised(t) THEN t
        ELSE IF Len(data.items) = 0 THEN OK
        ELSE IF IsInstance(data.items[1], "list")
        THEN ForEach([i \in 1..Len(data.items) |->
                        hitsCheckPosition(data_name, data.items[i], i - 1)])
        ELSE ForEach([i \in 1..Len(data.items) |->
                        hitsCheckHit(data_name, data.items[i], i - 1)])

ClusterEntries ==
    << Entry("energy", FALSE, "floatCheck"),
       Entry("phi", FALSE, "floatCheck"),
       Entry("eta", FALSE, "floatCheck") >>

clustersCheck(data_name, data) ==
    LET t == genericTypeCheck(data, data_name, "list")
        item(n) == genericCheck(data.items[n + 1], ClusterEntries,
                                data_name \o <<", entry ", ToString(n)>>,
                                "CaloCluster/CaloCell")
    IN  IF Raised(t) THEN t ELSE ForEach([i \in 1..Len(data.items) |-> item(i - 1)])

PlanarEntries ==
    << Entry("plane", FALSE, "floatListCheck4"),
       Entry("cells", FALSE, "cellsListCheck") >>

CellEntries ==
    << Entry("cellSize", FALSE, "floatCheck"),
       Entry("energy", FALSE, "floatCheck"),
       Entry("pos", FALSE, "floatListCheck2"),
       Entry("color", TRUE, "colorAttributeCheck") >>

\* planarCaloCheck, were data required to be a list as in the other checkers
planarCaloCheck_RequiresList(data_name, data) ==
    LET t == genericTypeCheck(data, data_name, "list")
        g == genericCheck(data, PlanarEntries, data_name, "PlanarCaloCells")
        cells == GetItem(data, "cells").items
        cell(n) == genericCheck(cells[n + 1], CellEntries,
                                data_name \o <<", cell ", ToString(n)>>, "CaloCell")
    IN  IF Raised(t) THEN t
        ELSE IF Raised(g) THEN g
        ELSE IF ~HasKey(data, "cells") THEN KeyError("cells")
        ELSE ForEach([i \in 1..Len(cells) |-> cell(i - 1)])

planarCaloCheck(data_name, data) ==
    LET t == genericTypeCheck(data, data_name, "dict")
        g == genericCheck(data, PlanarEntries, data_name, "PlanarCaloCells")
        cells == GetItem(data, "cells").items
        cell(n) == genericCheck(cells[n + 1], CellEntries,
                                data_name \o <<", cell ", ToString(n)>>, "CaloCell")
    IN  IF Raised(t) THEN t
        ELSE IF Raised(g) THEN g
        ELSE IF ~HasKey(data, "cells") THEN KeyError("cells")
        ELSE ForEach([i \in 1..Len(cells) |-> cell(i - 1)])

VertexEntries ==
    << Entry("x", FALSE, "floatCheck"),
       Entry("y", FALSE, "floatCheck"),
       Entry("z", FALSE, "floatCheck"),
       Entry("color", TRUE, "colorAttributeCheck") >>

verticesCheck(data_name, data) ==
    LET t == genericTypeCheck(data, data_name, "list")
        item(n) == genericCheck(data.items[n + 1], VertexEntries,
                                data_name \o <<", vertex ", ToString(n)>>, "Vertex")
    IN  IF Raised(t) THEN t ELSE ForEach([i \in 1..Len(data.items) |-> item(i - 1)])

MissingEEntries ==
    << Entry("etx", FALSE, "floatCheck"),
       Entry("ety", FALSE, "floatCheck"),
       Entry("color", TRUE, "colorAttributeCheck") >>

missingECheck(data_name, data) ==
    LET t == genericTypeCheck(data, data_name, "list")
        item(n) == genericCheck(data.items[n + 1], MissingEEntries,
                                data_name \o <<", object ", ToString(n)>>, "MissingEnergy")
    IN  IF Raised(t) THEN t ELSE ForEach([i \in 1..Len(data.items) |-> item(i - 1)])

compoundCheck(data_name, data) == OK

----------------------------------------------------------------------------
(* The table of known data types and their checking function *)

KnownDataTypes ==
    [t \in {"Tracks", "Jets", "Hits", "CaloClusters", "CaloCells", "PlanarCaloCells",
            "Vertices", "MissingEnergy", "Muons", "Photons", "Electrons"} |->
        CASE t = "Tracks" -> "tracksCheck"
          [] t = "Jets" -> "jetsCheck"
          [] t = "Hits" -> "hitsCheck"
          [] t \in {"CaloClusters", "CaloCells"} -> "clustersCheck"
          [] t = "PlanarCaloCells" -> "planarCaloCheck"
          [] t = "Vertices" -> "verticesCheck"
          [] t = "MissingEnergy" -> "missingECheck"
          [] t \in {"Muons", "Photons", "Electrons"} -> "compoundCheck"]

(* KnownDataTypes[data_type](data_name, data) *)
CallDataTypeCheck(data_type, data_name, data) ==
    LET f == KnownDataTypes[data_type]
    IN  CASE f = "tracksCheck" -> tracksCheck(data_name, data)
          [] f = "jetsCheck" -> jetsCheck(data_name, data)
          [] f = "hitsCheck" -> hitsCheck(data_name, data)
          [] f = "clustersCheck" -> clustersCheck(data_name, data)
          [] f = "planarCaloCheck" -> planarCaloCheck(data_name, data)
          [] f = "verticesCheck" -> verticesCheck(data_name, data)
          [] f = "missingECheck" -> missingECheck(data_name, data)
          [] f = "compoundCheck" -> compoundCheck(data_name, data)

----------------------------------------------------------------------------
(* The drivers *)

\* eventDataCheck, were the data type looked up for each collection only
eventDataCheck_LookupInLoop(event_name, data_type, data) ==
    ForEach([i \in 1..Len(data.items) |->
              IF data_type \notin DOMAIN KnownDataTypes
              THEN PhoenixFormatError(<<"Unknown data type found : '", data_type, "'">>)
              ELSE CallDataTypeCheck(data_type,
                     <<"event '", event_name, "', collection '", data.keys[i], "'">>,
                     data.items[i])])

eventDataCheck(event_name, data_type, data) ==
    IF data_type \notin DOMAIN KnownDataTypes
    THEN PhoenixFormatError(<<"Unknown data type found : '", data_type, "'">>)
    ELSE ForEach([i \in 1..Len(data.items) |->
                    CallDataTypeCheck(data_type,
                      <<"event '", event_name, "', collection '", data.keys[i], "'">>,
                      data.items[i])])

(* Each value of the table is the set {False, noCheck}; unpacking it into
   (isOpt, checker) follows the set's iteration order, and CPython puts
   False, whose hash is 0, in the first slot of the set's table. *)
EventEntries ==
    << Entry("event number", FALSE, "noCheck"),
       Entry("run number", FALSE, "noCheck") >>

\* eventCheck, were the entries not holding a dictionary not ignored
eventCheck_NoDictFilter(event_name, event) ==
    LET g == genericCheck(event, EventEntries, <<"top level event ", event_name>>, "Event")
        data(i) == IF IsInstance(event.items[i], "dict")
                   THEN eventDataCheck(event_name, event.keys[i], event.items[i])
                   ELSE PhoenixFormatError(<<"Unknown data type found : '", event.keys[i], "'">>)
    IN  IF Raised(g) THEN g ELSE ForEach([i \in 1..Len(event.items) |-> data(i)])

\* eventCheck, were the event data checked before the two numbers
eventCheck_DispatchFirst(event_name, event) ==
    LET g == genericCheck(event, EventEntries, <<"top level event ", event_name>>, "Event")
        data(i) == IF IsInstance(event.items[i], "dict")
                   THEN eventDataCheck(event_name, event.keys[i], event.items[i])
                   ELSE OK
        loop == ForEach([i \in 1..Len(event.items) |-> data(i)])
    IN  IF ~IsInstance(event, "dict") THEN g
        ELSE IF Raised(loop) THEN loop
        ELSE g

eventCheck(event_name, event) ==
    LET g == genericCheck(event, EventEntries, <<"top level event ", event_name>>, "Event")
        data(i) == IF IsInstance(event.items[i], "dict")
                   THEN eventDataCheck(event_name, event.keys[i], event.items[i])
                   ELSE OK
    IN  IF Raised(g) THEN g ELSE ForEach([i \in 1..Len(event.items) |-> data(i)])

check(topJson) ==
    IF ~IsInstance(topJson, "dict")
    THEN PhoenixFormatError(<<"Expected a dictionary at top level">>)
    ELSE ForEach([i \in 1..Len(topJson.items) |->
                    eventCheck(topJson.keys[i], topJson.items[i])])

----------------------------------------------------------------------------
(* Bounds of the inputs *)

\* items of an item list
MaxItems == 2
\* sub-collections of a data collection
MaxSubs == 2
\* data collections of an event
MaxColls == 1
\* events of a document
MaxEvents == 2
\* keys of an object handed to genericCheck
MaxKeys == 3
\* how far the length of a list of coordinates is from the expected one
LenSlack == 1

----------------------------------------------------------------------------
(* Inputs *)

SeqsUpTo(S, n) == UNION {[1..m -> S] : m \in 0..n}

IsInjective(f) == \A a, b \in DOMAIN f : a # b => f[a] # f[b]

IntV == PyInt("1")
FloatV == PyFloat("2.5")
StrV == PyStrv("red")
BoolV == PyBool("True")
EmptyList == PyList(<<>>)
EmptyDict == PyDict(<<>>, <<>>)

Scalars == {IntV, FloatV, StrV, BoolV, PyNone}

\* every kind of JSON value
Values == Scalars \cup {EmptyList, PyList(<<IntV>>), EmptyDict, PyDict(<<"pos">>, <<IntV>>)}

\* a list of n integers, item p of it (if any) replaced by a
NumList(n, p, a) == PyList([i \in 1..n |-> IF i = p THEN a ELSE IntV])

Ints(n) == NumList(n, 0, IntV)

\* lists of about n coordinates: of the expected length with one item of any
\* kind, and of the lengths around it
CoordLists(n) ==
    {NumList(n, p, a) : p \in 1..n, a \in {FloatV, StrV, BoolV, PyNone}}
        \cup {Ints(m) : m \in {m \in (n - LenSlack)..(n + LenSlack) : m >= 0}}

\* the mark of a key that an object does not hold
Absent == [k |-> "absent", s |-> "", keys |-> <<>>, items |-> <<>>]

\* the keys, each with each of the values, of at most n distinct keys
KeyedSeqs(K, V, n) ==
    UNION {{<<ks, vs>> : ks \in {s \in [1..m -> K] : IsInjective(s)}, vs \in [1..m -> V]} :
             m \in 0..n}

\* an object of the given keys, less those whose value is Absent
Obj(keys, vals) ==
    LET present == SelectSeq([i \in 1..Len(keys) |-> i], LAMBDA i : vals[i] # Absent)
    IN  PyDict([i \in 1..Len(present) |-> keys[present[i]]],
               [i \in 1..Len(present) |-> vals[present[i]]])

\* item lists: every one-item list over Full, and the lists over Core
ItemLists(Full, Core) ==
    {PyList(<<e>>) : e \in Full} \cup {PyList(s) : s \in SeqsUpTo(Core, MaxItems)}

HitObjects ==
    {Obj(<<"type", "pos", "color">>, <<t, p, c>>) :
        t \in {Absent, PyStrv("Point"), PyStrv("Line"), PyStrv("Box"), PyStrv("Sphere"),
               IntV, EmptyList},
        p \in {Absent, IntV, StrV, Ints(3), Ints(6), Ints(4), NumList(3, 2, BoolV),
               NumList(6, 6, StrV)},
        c \in {Absent, StrV, IntV}}

GoodHit == Obj(<<"type", "pos">>, <<PyStrv("Line"), Ints(6)>>)
PointHit == Obj(<<"pos", "color">>, <<Ints(3), StrV>>)

HitsInputs ==
    (Values \ {EmptyList})
        \cup ItemLists(HitObjects \cup CoordLists(3) \cup Scalars,
                       {Ints(3), Ints(2), NumList(3, 3, BoolV), NumList(3, 1, StrV),
                        GoodHit, PointHit, Obj(<<"type", "pos">>, <<PyStrv("Box"), Ints(3)>>),
                        Obj(<<"type">>, <<PyStrv("Point")>>), IntV})

PosValues ==
    {IntV, StrV, EmptyDict}
        \cup {PyList(s) : s \in SeqsUpTo({Ints(3), Ints(2), Ints(4), NumList(3, 3, StrV),
                                           NumList(3, 1, BoolV), IntV}, MaxItems)}

GoodTrack ==
    Obj(<<"pos", "color", "dparams", "d0">>, <<PyList(<<Ints(3), Ints(3)>>), StrV, Ints(5), FloatV>>)

TrackObjects ==
    {Obj(<<"color", "pos">>, <<c, p>>) : c \in {Absent, StrV}, p \in PosValues \cup {Absent}}
        \cup {Obj(<<"pos", "color", "dparams", "d0", "label">>, <<PyList(<<Ints(3)>>), c, dp, d0, x>>) :
                c \in {Absent, StrV, IntV}, dp \in {Absent, Ints(5), Ints(4), IntV},
                d0 \in {Absent, FloatV, StrV}, x \in {Absent, PyNone}}

TracksInputs ==
    (Values \ {EmptyList})
        \cup ItemLists(TrackObjects \cup Scalars,
                       {GoodTrack, Obj(<<"color">>, <<StrV>>),
                        Obj(<<"pos">>, <<PyList(<<Ints(2)>>)>>),
                        Obj(<<"pos">>, <<PyList(<<NumList(3, 2, BoolV)>>)>>), IntV})

GoodJet == Obj(<<"eta", "phi", "energy", "color">>, <<FloatV, IntV, FloatV, StrV>>)
GoodCluster == Obj(<<"energy", "phi", "eta">>, <<FloatV, FloatV, IntV>>)
GoodVertex == Obj(<<"x", "y", "z", "color">>, <<IntV, FloatV, IntV, StrV>>)
GoodMissingE == Obj(<<"etx", "ety">>, <<FloatV, FloatV>>)
GoodCell == Obj(<<"cellSize", "energy", "pos", "color">>, <<IntV, FloatV, Ints(2), StrV>>)

PlanarObjects ==
    {Obj(<<"plane", "cells">>, <<pl, ce>>) :
        pl \in {Absent, Ints(4), Ints(3), IntV},
        ce \in {Absent, IntV, EmptyDict}
                \cup {PyList(s) : s \in SeqsUpTo({GoodCell, EmptyDict, IntV,
                                                  Obj(<<"cellSize", "energy", "pos">>,
                                                      <<IntV, IntV, Ints(3)>>)}, MaxItems)}}

GoodPlanar == Obj(<<"plane", "cells">>, <<Ints(4), PyList(<<GoodCell>>)>>)

\* values of a sub-collection, for every data type
SubCollections ==
    Scalars \cup PlanarObjects
        \cup ItemLists({},
                       {GoodTrack, GoodJet, GoodHit, Ints(3), GoodCluster, GoodVertex,
                        GoodMissingE, EmptyDict, IntV})

Tags == DOMAIN KnownDataTypes

\* a conformant sub-collection of each data type
GoodSub(t) ==
    CASE t = "Tracks" -> PyList(<<GoodTrack>>)
      [] t = "Jets" -> PyList(<<GoodJet, GoodJet>>)
      [] t = "Hits" -> PyList(<<GoodHit, PointHit>>)
      [] t \in {"CaloClusters", "CaloCells"} -> PyList(<<GoodCluster>>)
      [] t = "PlanarCaloCells" -> GoodPlanar
      [] t = "Vertices" -> PyList(<<GoodVertex>>)
      [] t = "MissingEnergy" -> PyList(<<GoodMissingE>>)
      [] OTHER -> IntV

DataTypeInputs ==
    {<<t, PyDict(<<"c1", "c2", "c3">>, <<GoodSub(t), s, GoodSub(t)>>)>> : t \in Tags, s \in SubCollections}
        \cup {<<t, PyDict([i \in 1..Len(s) |-> <<"c1", "c2", "c3", "c4">>[i]], s)>> :
                t \in Tags \cup {"Foo", "event number", "tracks"},
                s \in SeqsUpTo({EmptyList, IntV, PyList(<<Ints(3)>>), GoodPlanar,
                                PyList(<<GoodTrack>>), PyList(<<EmptyDict>>)}, MaxSubs)}

\* an event: the two numbers (or Absent), and its data collections, before
\* the numbers or after them
EventObj(en, rn, tags, colls, first) ==
    LET nums == Obj(<<"event number", "run number">>, <<en, rn>>)
    IN  IF first THEN PyDict(tags \o nums.keys, colls \o nums.items)
        ELSE PyDict(nums.keys \o tags, nums.items \o colls)

NumberValues == {IntV, StrV, BoolV, PyNone, FloatV, EmptyList, EmptyDict, Absent}

CollValues ==
    {IntV, EmptyList, EmptyDict, PyDict(<<"c1">>, <<PyList(<<Ints(3)>>)>>),
     PyDict(<<"c1">>, <<PyList(<<Ints(2)>>)>>)}

EventInputs ==
    Values
        \cup {EventObj(en, rn, c[1], c[2], first) :
                en \in NumberValues, rn \in NumberValues,
                c \in KeyedSeqs({"Hits", "Muons", "Foo"}, CollValues, MaxColls),
                first \in BOOLEAN}

\* an event holding a conformant collection of every data type
RichEvent ==
    LET tags == <<"Tracks", "Jets", "Hits", "CaloClusters", "CaloCells", "PlanarCaloCells",
                  "Vertices", "MissingEnergy", "Muons", "Photons", "Electrons">>
    IN  PyDict(<<"event number", "run number", "time">> \o tags,
               <<IntV, IntV, StrV>> \o [i \in 1..Len(tags) |-> PyDict(<<"c1">>, <<GoodSub(tags[i])>>)])

DocInputs ==
    Values
        \cup {PyDict(<<"e1">>, <<EventObj(IntV, StrV, <<t>>, <<PyDict(<<"c1">>, <<s>>)>>, FALSE)>>) :
                t \in Tags \cup {"Foo"}, s \in SubCollections}
        \cup {PyDict([i \in 1..Len(s) |-> <<"e1", "e2", "e3", "e4">>[i]], s) :
                s \in SeqsUpTo({RichEvent, EventObj(IntV, IntV, <<>>, <<>>, FALSE),
                                EventObj(IntV, Absent, <<>>, <<>>, FALSE), IntV,
                                EventObj(IntV, PyNone, <<"Foo">>, <<EmptyDict>>, FALSE)},
                               MaxEvents)}

\* the schema tables, by the objType they are used with
SchemaOf(objType) ==
    CASE objType = "Track" -> TrackEntries
      [] objType = "Jet" -> JetEntries
      [] objType = "Hit" -> HitEntries
      [] objType = "CaloCluster/CaloCell" -> ClusterEntries
      [] objType = "PlanarCaloCells" -> PlanarEntries
      [] objType = "CaloCell" -> CellEntries
      [] objType = "Vertex" -> VertexEntries
      [] objType = "MissingEnergy" -> MissingEEntries
      [] objType = "Event" -> EventEntries

GenericInputs ==
    {<<t, v>> : t \in {"Vertex", "Hit", "Event"}, v \in Values}
        \cup {<<"Vertex", PyDict(o[1], o[2])>> :
                o \in KeyedSeqs({"x", "y", "z", "color", "w"}, {IntV, StrV}, MaxKeys)}
        \cup {<<"Hit", PyDict(o[1], o[2])>> :
                o \in KeyedSeqs({"type", "pos", "color"}, {PyStrv("Point"), StrV, Ints(3)},
                                MaxKeys)}

Call(f, nm, t, v) ==
    /\ pc = "call"
    /\ fn = f
    /\ name = nm
    /\ dtype = t
    /\ j = v
    /\ result = OK
    /\ calls = <<>>

----------------------------------------------------------------------------
Init ==
    \/ \E v \in Values : Call("floatCheck", <<"x">>, "", v)
    \/ \E g \in GenericInputs : Call("genericCheck", <<"o">>, g[1], g[2])
    \/ \E v \in HitsInputs : Call("hitsCheck", <<"h">>, "", v)
    \/ \E v \in TracksInputs : Call("tracksCheck", <<"t">>, "", v)
    \/ \E t \in Tags, v \in SubCollections : Call("KnownDataTypes", <<"c">>, t, v)
    \/ \E d \in DataTypeInputs : Call("eventDataCheck", <<"e">>, d[1], d[2])
    \/ \E v \in EventInputs : Call("eventCheck", <<"e">>, "", v)
    \/ \E v \in DocInputs : Call("check", <<>>, "", v)

Return(r) ==
    /\ pc = "call"
    /\ result' = r
    /\ pc' = "done"
    /\ UNCHANGED <<fn, name, dtype, j>>

Call_floatCheck ==
    /\ fn = "floatCheck"
    /\ Return(floatCheck(j, name))
    /\ UNCHANGED calls

Call_genericCheck ==
    /\ fn = "genericCheck"
    /\ Return(genericCheck(j, SchemaOf(dtype), name, dtype))
    /\ calls' = genericCheckRun(j, SchemaOf(dtype), name, dtype).calls

Call_hitsCheck ==
    /\ fn = "hitsCheck"
    /\ Return(hitsCheck(name, j))
    /\ UNCHANGED calls

Call_tracksCheck ==
    /\ fn = "tracksCheck"
    /\ Return(tracksCheck(name, j))
    /\ UNCHANGED calls

Call_KnownDataTypes ==
    /\ fn = "KnownDataTypes"
    /\ Return(CallDataTypeCheck(dtype, name, j))
    /\ UNCHANGED calls

Call_eventDataCheck ==
    /\ fn = "eventDataCheck"
    /\ Return(eventDataCheck(name[1], dtype, j))
    /\ UNCHANGED calls

Call_eventCheck ==
    /\ fn = "eventCheck"
    /\ Return(eventCheck(name[1], j))
    /\ UNCHANGED calls

Call_check ==
    /\ fn = "check"
    /\ Return(check(j))
    /\ UNCHANGED calls

Next ==
    \/ Call_floatCheck
    \/ Call_genericCheck
    \/ Call_hitsCheck
    \/ Call_tracksCheck
    \/ Call_KnownDataTypes
    \/ Call_eventDataCheck
    \/ Call_eventCheck
    \/ Call_check

Spec == Init /\ [][Next]_vars
----------------------------------------------------------------------------
(* Vocabulary of the properties *)

Done(f) == pc = "done" /\ fn = f

RecognizedTags ==
    {"Tracks", "Jets", "Hits", "CaloClusters", "CaloCells", "PlanarCaloCells", "Vertices",
     "MissingEnergy", "Muons", "Photons", "Electrons"}

ListTags == {"Tracks", "Jets", "Hits", "CaloClusters", "CaloCells", "Vertices", "MissingEnergy"}

\* an integer or a floating-point value
Numeric(v) == v.k \in {"int", "float"}

IsScalar(v) == v.k \in {"int", "float", "str", "bool", "NoneType"}

IsFormatError(r) == r.exc = "PhoenixFormatError"

\* the first pieces of the message of r are head
MessageStarts(r, head) ==
    /\ IsFormatError(r)
    /\ Len(r.message) >= Len(head)
    /\ SubSeq(r.message, 1, Len(head)) = head

\* o is an object that holds the mandatory keys of the schema d, and whose
\* value under each key of d passes the checker of that key
ConformsTo(o, d) ==
    /\ o.k = "dict"
    /\ \A i \in 1..Len(d) :
         /\ ~d[i].isOpt => HasKey(o, d[i].key)
         /\ HasKey(o, d[i].key) => ~Raised(ApplyChecker(d[i].checker, GetItem(o, d[i].key), <<>>))

ItemSchema(t) ==
    CASE t = "Tracks" -> TrackEntries
      [] t = "Jets" -> JetEntries
      [] t \in {"CaloClusters", "CaloCells"} -> ClusterEntries
      [] t = "Vertices" -> VertexEntries
      [] t = "MissingEnergy" -> MissingEEntries

ConformsHit(o) ==
    /\ ConformsTo(o, HitEntries)
    /\ Len(GetItem(o, "pos").items) =
         IF HasKey(o, "type") /\ GetItem(o, "type").s # "Point" THEN 6 ELSE 3

ConformsTriplet(v) ==
    /\ v.k = "list"
    /\ Len(v.items) = 3
    /\ \A i \in 1..3 : ~Raised(floatCheck(v.items[i], <<>>))

\* the sub-collection s conforms to the item schema of the data type t
ConformsSub(t, s) ==
    CASE t \in {"Muons", "Photons", "Electrons"} -> TRUE
      [] t = "PlanarCaloCells" ->
            /\ ConformsTo(s, PlanarEntries)
            /\ \A i \in 1..Len(GetItem(s, "cells").items) :
                 ConformsTo(GetItem(s, "cells").items[i], CellEntries)
      [] t = "Hits" ->
            /\ s.k = "list"
            /\ \/ \A i \in 1..Len(s.items) : ConformsTriplet(s.items[i])
               \/ \A i \in 1..Len(s.items) : ConformsHit(s.items[i])
      [] OTHER ->
            /\ s.k = "list"
            /\ \A i \in 1..Len(s.items) : ConformsTo(s.items[i], ItemSchema(t))

ConformsEvent(e) ==
    /\ e.k = "dict"
    /\ HasKey(e, "event number") /\ IsScalar(GetItem(e, "event number"))
    /\ HasKey(e, "run number") /\ IsScalar(GetItem(e, "run number"))
    /\ \A i \in 1..Len(e.items) :
         e.items[i].k = "dict" =>
           /\ e.keys[i] \in RecognizedTags
           /\ \A c \in 1..Len(e.items[i].items) : ConformsSub(e.keys[i], e.items[i].items[c])

ConformsDocument(doc) ==
    /\ doc.k = "dict"
    /\ \A i \in 1..Len(doc.items) : ConformsEvent(doc.items[i])

----------------------------------------------------------------------------
(* C1: check returns without error for every document that is a mapping in
   which every event is an object holding both `event number` and `run
   number` as scalar values, every object-valued key of an event is one of
   the eleven recognized tags, and every sub-collection conforms to the item
   schema of its tag. *)
C1_ConformantDocumentPasses ==
    (Done("check") /\ ConformsDocument(j)) => result = OK

\* a conformant document of two events, one holding every data type
C1_Witness ==
    /\ Done("check")
    /\ ConformsDocument(j)
    /\ Len(j.items) = 2
    /\ \E i \in 1..2 : j.items[i] = RichEvent
    /\ result = OK

----------------------------------------------------------------------------
(* C2: for every event that is an object missing `event number` or `run
   number`, eventCheck fails with the structural error "Expected a '<key>'
   attribute in top level event <name>" naming the missing attribute (`event
   number` when both are missing), before any collection of the event is
   dispatched, whatever else the event contains. *)
C2_MissingNumberNamed ==
    (Done("eventCheck") /\ j.k = "dict"
        /\ (~HasKey(j, "event number") \/ ~HasKey(j, "run number")))
    => result = PhoenixFormatError(
                  <<"Expected a '",
                    IF ~HasKey(j, "event number") THEN "event number" ELSE "run number",
                    "' attribute in ", "top level event ", name[1]>>)

\* an event without run number whose first key is a collection of an unknown
\* data type
C2_Witness ==
    /\ Done("eventCheck")
    /\ j.k = "dict" /\ Len(j.keys) = 2
    /\ j.keys[1] = "Foo" /\ j.items[1].k = "dict"
    /\ j.keys[2] = "event number"
    /\ MessageStarts(result, <<"Expected a '", "run number">>)

----------------------------------------------------------------------------
(* C3: for every data collection whose key is a string outside the eleven
   recognized tags, eventDataCheck fails with "Unknown data type found :
   '<tag>'" naming that tag, also when the collection object is empty; and
   an event holding such a collection is rejected, with that error when its
   two numbers are present and the collection is its first object-valued
   key. *)
C3_UnknownTagNamed ==
    /\ (Done("eventDataCheck") /\ dtype \notin RecognizedTags)
         => result = PhoenixFormatError(<<"Unknown data type found : '", dtype, "'">>)
    /\ (Done("eventCheck") /\ j.k = "dict")
         => \A i \in 1..Len(j.items) :
              (j.items[i].k = "dict" /\ j.keys[i] \notin RecognizedTags)
              => /\ IsFormatError(result)
                 /\ (/\ HasKey(j, "event number") /\ HasKey(j, "run number")
                     /\ \A h \in 1..(i - 1) : j.items[h].k # "dict")
                    => result = PhoenixFormatError(
                                  <<"Unknown data type found : '", j.keys[i], "'">>)

\* an empty collection object under an unknown tag
C3_Witness ==
    /\ Done("eventDataCheck")
    /\ dtype = "Foo"
    /\ j = EmptyDict
    /\ result = PhoenixFormatError(<<"Unknown data type found : '", "Foo", "'">>)

----------------------------------------------------------------------------
(* C4: hitsCheck classifies a non-empty Hits list by its first element: if
   it is a list, the list passes iff every element is a list of exactly 3
   numeric values; otherwise the list passes iff every element is an object
   with a numeric-list `pos`, an optional `type` in {Point, Line, Box} and
   an optional string `color`, where len(pos) = 3 when `type` is Point or
   absent and 6 when it is Line or Box. *)
NumericList(v) == v.k = "list" /\ \A i \in 1..Len(v.items) : Numeric(v.items[i])

C4_HitObject(o) ==
    /\ o.k = "dict"
    /\ HasKey(o, "pos") /\ NumericList(GetItem(o, "pos"))
    /\ HasKey(o, "type") =>
         (GetItem(o, "type").k = "str" /\ GetItem(o, "type").s \in {"Point", "Line", "Box"})
    /\ HasKey(o, "color") => GetItem(o, "color").k = "str"
    /\ Len(GetItem(o, "pos").items) =
         IF HasKey(o, "type") /\ GetItem(o, "type").s \in {"Line", "Box"} THEN 6 ELSE 3

C4_HitsClassifiedByFirst ==
    (Done("hitsCheck") /\ j.k = "list" /\ Len(j.items) > 0)
    => (result = OK <=>
          IF j.items[1].k = "list"
          THEN \A i \in 1..Len(j.items) :
                 NumericList(j.items[i]) /\ Len(j.items[i].items) = 3
          ELSE \A i \in 1..Len(j.items) : C4_HitObject(j.items[i]))

----------------------------------------------------------------------------
(* C5: for every decoded JSON value passed to check (and to any checker),
   the call returns normally or raises a PhoenixFormatError, never another
   kind of failure; and the error check raises is the error of the event
   check that failed, unchanged. *)
C5_OnlyFormatErrors ==
    /\ pc = "done" => result.exc \in {"none", "PhoenixFormatError"}
    /\ (Done("check") /\ Raised(result))
         => \/ j.k # "dict" /\ result = PhoenixFormatError(<<"Expected a dictionary at top level">>)
            \/ /\ j.k = "dict"
               /\ \E i \in 1..Len(j.items) :
                    /\ result = eventCheck(j.keys[i], j.items[i])
                    /\ \A h \in 1..(i - 1) : ~Raised(eventCheck(j.keys[h], j.items[h]))

\* a document whose Hits list holds an object and then a list: the error of
\* hitsCheck reaches the caller of check
C5_Witness ==
    /\ Done("check")
    /\ j.k = "dict" /\ Len(j.items) = 1
    /\ j.items[1].k = "dict" /\ HasKey(j.items[1], "Hits")
    /\ GetItem(j.items[1], "Hits") = PyDict(<<"c1">>, <<PyList(<<GoodHit, Ints(3)>>)>>)
    /\ MessageStarts(result, <<"Expected ", "Hit", " to be dictionaries. Not the case for ">>)

----------------------------------------------------------------------------
(* C6: an event object in which `event number` and `run number` are both
   present is never rejected because of the values stored under those two
   keys, for any kind of JSON value they hold: it is rejected only if it is
   rejected too with plain numbers under the two keys. *)
WithNumbers(e, v) ==
    PyDict(e.keys,
           [i \in 1..Len(e.items) |->
              IF e.keys[i] \in {"event number", "run number"} THEN v ELSE e.items[i]])

C6_NumbersPresenceOnly ==
    (Done("eventCheck") /\ j.k = "dict"
        /\ HasKey(j, "event number") /\ HasKey(j, "run number") /\ Raised(result))
    => Raised(eventCheck(name[1], WithNumbers(j, IntV)))

----------------------------------------------------------------------------
(* C7: for every Tracks item that is missing `pos`, or whose `pos` is not a
   list of 3-element numeric triplets, validation fails, and the error
   raised cites the triplet-length mismatch. *)
CitesTripletLength(r) == MessageStarts(r, <<"Expected ", "3", " entries in ">>)

C7_BadPos(o) ==
    /\ o.k = "dict"
    /\ \/ ~HasKey(o, "pos")
       \/ GetItem(o, "pos").k # "list"
       \/ \E n \in 1..Len(GetItem(o, "pos").items) :
            LET t == GetItem(o, "pos").items[n]
            IN  ~(NumericList(t) /\ Len(t.items) = 3)

C7_BadPosCitesTripletLength ==
    (Done("tracksCheck") /\ j.k = "list" /\ \E i \in 1..Len(j.items) : C7_BadPos(j.items[i]))
    => CitesTripletLength(result)

(* C7 as amended: for every Tracks item that is missing `pos`, or whose `pos`
   is not a list of 3-element lists of values that floatCheck accepts,
   validation fails; when the items before it are valid, the error cites the
   missing 'pos' attribute if `pos` is absent, the type found if `pos` or
   the first offending element of `pos` is not a list or if that element
   holds 3 values one of which floatCheck rejects, and the triplet-length
   mismatch exactly when the first offending element of `pos` is a list
   whose length is not 3. *)
C7_GoodTriplet(t) ==
    t.k = "list" /\ Len(t.items) = 3 /\ \A c \in 1..3 : ~Raised(floatCheck(t.items[c], <<>>))

C7_RejectedPos(o) ==
    /\ o.k = "dict"
    /\ \/ ~HasKey(o, "pos")
       \/ GetItem(o, "pos").k # "list"
       \/ \E n \in 1..Len(GetItem(o, "pos").items) : ~C7_GoodTriplet(GetItem(o, "pos").items[n])

C7_ErrorOf(o, r, n) ==
    LET label == name \o <<", track ", ToString(n)>>
        pos == GetItem(o, "pos")
        bad == CHOOSE b \in 1..Len(pos.items) :
                 /\ ~C7_GoodTriplet(pos.items[b])
                 /\ \A h \in 1..(b - 1) : C7_GoodTriplet(pos.items[h])
    IN  IF ~HasKey(o, "pos")
        THEN r = PhoenixFormatError(<<"Expected a '", "pos", "' attribute in ">> \o label)
        ELSE IF pos.k # "list"
        THEN /\ MessageStarts(r, <<"Expected the ">> \o label \o <<", attribute '", "pos", "'",
                                   " to be of type \"", "list">>)
             /\ ~CitesTripletLength(r)
        ELSE IF pos.items[bad].k # "list"
        THEN /\ MessageStarts(r, <<"Expected the ">> \o label
                                   \o <<", attribute '", "pos", "'", ", item ", ToString(bad - 1),
                                        " to be of type \"", "list">>)
             /\ ~CitesTripletLength(r)
        ELSE IF Len(pos.items[bad].items) # 3
        THEN r = PhoenixFormatError(
                   <<"Expected ", "3", " entries in ">> \o label
                     \o <<", attribute '", "pos", "'", ", item ", ToString(bad - 1),
                          ", got ", ToString(Len(pos.items[bad].items))>>)
        ELSE /\ MessageStarts(r, <<"Expected the ">> \o label
                                   \o <<", attribute '", "pos", "'", ", item ", ToString(bad - 1)>>)
             /\ r.message[Len(r.message) - 1] = " to be of type float or int, found "
             /\ ~CitesTripletLength(r)

C7_BadPosRejected ==
    (Done("tracksCheck") /\ j.k = "list")
    => \A i \in 1..Len(j.items) :
         C7_RejectedPos(j.items[i])
         => /\ IsFormatError(result)
            /\ (\A h \in 1..(i - 1) : ConformsTo(j.items[h], TrackEntries))
               => C7_ErrorOf(j.items[i], result, i)

\* a second track whose pos holds a list of 2 values
C7_Witness ==
    /\ Done("tracksCheck")
    /\ j = PyList(<<GoodTrack, Obj(<<"pos">>, <<PyList(<<Ints(2)>>)>>)>>)
    /\ CitesTripletLength(result)

----------------------------------------------------------------------------
(* C8: every checker of the dispatch registry requires the sub-collection
   value it receives to be a list: for each of the eleven tags, a value that
   is not a list is rejected with a structural error. *)
C8_EveryCheckerRequiresList ==
    (Done("KnownDataTypes") /\ j.k # "list") => IsFormatError(result)

(* C8 as amended: the checkers of Tracks, Jets, Hits, CaloClusters,
   CaloCells, Vertices and MissingEnergy require the sub-collection value to
   be a list, reject any other value with a structural error, and (Hits
   apart, which first classifies the list) accept a list iff every item of
   it conforms to the item schema of the tag; the checker of PlanarCaloCells
   requires an object and rejects any other value, a list included; the
   checker of Muons, Photons and Electrons accepts every value. *)
C8_ListRequiredByListCheckers ==
    Done("KnownDataTypes")
    => /\ (dtype \in ListTags /\ j.k # "list")
            => result = PhoenixFormatError(<<"Expected the ">> \o name
                                             \o <<" to be of type \"", "list", "\", found ", j.k>>)
       /\ (dtype \in ListTags \ {"Hits"} /\ j.k = "list")
            => (result = OK <=>
                  \A i \in 1..Len(j.items) : ConformsTo(j.items[i], ItemSchema(dtype)))
       /\ (dtype = "PlanarCaloCells" /\ j.k # "dict")
            => result = PhoenixFormatError(<<"Expected the ">> \o name
                                             \o <<" to be of type \"", "dict", "\", found ", j.k>>)
       /\ (dtype = "PlanarCaloCells" /\ j.k = "dict")
            => (result = OK <=> ConformsSub(dtype, j))
       /\ dtype \in {"Muons", "Photons", "Electrons"} => result = OK

\* a list handed to the checker of PlanarCaloCells
C8_Witness ==
    /\ Done("KnownDataTypes")
    /\ dtype = "PlanarCaloCells"
    /\ j.k = "list" /\ Len(j.items) = 2
    /\ MessageStarts(result, <<"Expected the ", "c", " to be of type \"", "dict">>)

----------------------------------------------------------------------------
(* C9: genericCheck visits the schema entries in declaration order, doing
   the presence test and the value check of one key before moving to the
   next: the error raised is the one of the first schema key that is either
   mandatory and absent or present with a failing checker, whatever the key
   order of the checked object; no checker of a later key is called, and
   keys of the object that are not in the schema never cause a failure. *)
C9_Label(key) == name \o <<", attribute '", key, "'">>

\* entry i of d fails on o
C9_Fails(o, d, i) ==
    \/ ~d[i].isOpt /\ ~HasKey(o, d[i].key)
    \/ HasKey(o, d[i].key)
         /\ Raised(ApplyChecker(d[i].checker, GetItem(o, d[i].key), C9_Label(d[i].key)))

\* the keys among entries 1..n of d that o holds, in declaration order
C9_Present(o, d, n) ==
    LET idx == SelectSeq([i \in 1..n |-> i], LAMBDA i : HasKey(o, d[i].key))
    IN  [i \in 1..Len(idx) |-> d[idx[i]].key]

C9_Reversed(o) ==
    PyDict([i \in 1..Len(o.keys) |-> o.keys[Len(o.keys) + 1 - i]],
           [i \in 1..Len(o.items) |-> o.items[Len(o.items) + 1 - i]])

C9_FirstFailingEntryInTableOrder ==
    (Done("genericCheck") /\ j.k = "dict")
    => LET d == SchemaOf(dtype)
           f == CHOOSE i \in 1..Len(d) : C9_Fails(j, d, i) /\ \A h \in 1..(i - 1) : ~C9_Fails(j, d, h)
       IN  /\ IF \E i \in 1..Len(d) : C9_Fails(j, d, i)
              THEN /\ result =
                        IF HasKey(j, d[f].key)
                        THEN ApplyChecker(d[f].checker, GetItem(j, d[f].key), C9_Label(d[f].key))
                        ELSE PhoenixFormatError(<<"Expected a '", d[f].key, "' attribute in ">>
                                                  \o name)
                   /\ calls = C9_Present(j, d, f)
              ELSE /\ result = OK
                   /\ calls = C9_Present(j, d, Len(d))
           /\ result = genericCheck(C9_Reversed(j), d, name, dtype)

\* a vertex whose keys come in the reverse of the table's order, with a bad
\* color and a bad x, and no y: the error is the one of x
C9_Witness ==
    /\ Done("genericCheck")
    /\ dtype = "Vertex"
    /\ j = PyDict(<<"w", "color", "x">>, <<StrV, IntV, StrV>>)
    /\ MessageStarts(result, <<"Expected the ", "o", ", attribute '", "x", "'">>)
    /\ calls = <<"x">>

----------------------------------------------------------------------------
(* C10: floatCheck succeeds exactly for integer and floating-point values:
   it fails with a structural error for every other kind of JSON value, that
   is for strings, booleans, null, lists and objects. *)
C10_FloatCheckExactlyNumbers ==
    Done("floatCheck")
    => /\ Numeric(j) => result = OK
       /\ j.k \in {"str", "bool", "NoneType", "list", "dict"} => IsFormatError(result)

====
